---- MODULE Spec2Model ----
(***************************************************************************)
(* wazz-audio-shared: the unified storage client (wazz_shared/storage.py). *)
(*                                                                         *)
(* One StorageClient works against one of two backends, chosen by          *)
(* settings.use_local_storage when it is constructed:                      *)
(*   - local mode: a directory tree under Path("./storage"); an object key *)
(*     is joined onto the root as a relative path (pathlib), files are     *)
(*     copied with shutil.copy2 and removed with Path.unlink;              *)
(*   - remote mode: a boto3 S3 client and one bucket; an object key is the *)
(*     object's name in the flat key space of the bucket.                  *)
(*                                                                         *)
(* Strings are sequences of one-character strings, so that the prefix of a *)
(* key, the split of a key into path segments and the join of a relative  *)
(* path back into a key are computed, not assumed.                         *)
(***************************************************************************)
EXTENDS Integers, Sequences, FiniteSets, TLC

VARIABLES
    settings,   \* SharedSettings: [use_local_storage]
    client,     \* the StorageClient instance, NoClient before construction
    fs,         \* the directory tree ./storage: relative path -> node
    s3,         \* the object store: [bucket, objs: key -> content]
    s3_fault,   \* how the object store answers requests right now
    written,    \* history: key -> content of its last successful upload,
                \* for the keys uploaded and not deleted since
    last        \* the last call made on the client and how it ended

vars == <<settings, client, fs, s3, s3_fault, written, last>>

\* The other parts of the library, each with a specification of its own below
VARIABLES
    up,         \* uploads to one key in progress, step by step
    pub,        \* the EventPublisher and the broker's side of its connections
    db,         \* the users table and a run of the password-reset migration
    cfg         \* the cache of get_shared_settings and the threads calling it

others == <<up, pub, db, cfg>>

\* a part that the specification at hand leaves out
Unused == <<>>

----------------------------------------------------------------------------
(* Bounds and input sets *)

\* longest file content, in bytes
MaxLen == 1

\* the byte values a content is made of; contents differ by their length
Bytes == {1}

RECURSIVE SeqsUpTo(_, _)
SeqsUpTo(S, n) ==
    IF n = 0 THEN {<<>>}
    ELSE LET shorter == SeqsUpTo(S, n - 1)
         IN  shorter \cup {Append(t, x) : t \in {u \in shorter : Len(u) = n - 1}, x \in S}

Contents == SeqsUpTo(Bytes, MaxLen)

\* object keys: "a", "a/b" (below the path "a") and "ab" (which starts with
\* the string "a" but is not below the path "a")
Keys == { <<"a">>, <<"a", "/", "b">>, <<"a", "b">> }

\* listing prefixes: "", "a", "a/", "a/b", "ab", "b"
Prefixes == { <<>>, <<"a">>, <<"a", "/">>, <<"a", "/", "b">>, <<"a", "b">>, <<"b">> }

\* base names of the local source files handed to upload_file
SrcNames == { <<"b">>, <<"s">> }

\* a local source path: its base name, whether it exists, what it holds
Sources ==
    [name : SrcNames, exists : {TRUE}, data : Contents]
        \cup [name : SrcNames, exists : {FALSE}, data : {<<>>}]

\* a local destination path, by its directory part (os.path.dirname):
\* "" for a bare file name, else a directory that exists or does not
Dests == {"bare", "dir_exists", "dir_missing"}

Faults == {"none", "denied", "down"}

----------------------------------------------------------------------------
(* Strings and paths (pathlib) *)

IsPrefix(p, s) == Len(p) <= Len(s) /\ SubSeq(s, 1, Len(p)) = p

\* PurePath parsing of a relative string: split at "/", empty segments dropped
RECURSIVE SplitAcc(_, _, _)
SplitAcc(s, cur, acc) ==
    LET flushed == IF cur = <<>> THEN acc ELSE Append(acc, cur)
    IN  IF s = <<>> THEN flushed
        ELSE IF Head(s) = "/" THEN SplitAcc(Tail(s), <<>>, flushed)
        ELSE SplitAcc(Tail(s), Append(cur, Head(s)), acc)

\* self.base_path / object_key, as a path relative to base_path
path_of(key) == SplitAcc(key, <<>>, <<>>)

\* str(item.relative_to(self.base_path))
RECURSIVE rel_str(_)
rel_str(p) ==
    IF p = <<>> THEN <<>>
    ELSE IF Len(p) = 1 THEN Head(p)
    ELSE Head(p) \o <<"/">> \o rel_str(Tail(p))

parent(p) == IF p = <<>> THEN <<>> ELSE SubSeq(p, 1, Len(p) - 1)

ancestors_and_self(p) == { SubSeq(p, 1, i) : i \in 0..Len(p) }

----------------------------------------------------------------------------
(* The local filesystem under base_path *)

DirNode == [kind |-> "dir", data |-> <<>>]
FileNode(c) == [kind |-> "file", data |-> c]

path_exists(f, p) == p \in DOMAIN f
is_dir(f, p) == p \in DOMAIN f /\ f[p].kind = "dir"
is_file(f, p) == p \in DOMAIN f /\ f[p].kind = "file"

fs_put(f, p, node) == [q \in DOMAIN f \cup {p} |-> IF q = p THEN node ELSE f[q]]
fs_remove(f, p) == [q \in DOMAIN f \ {p} |-> f[q]]

\* Path.mkdir(parents=True, exist_ok=True)
mkdir_parents(f, p) ==
    IF is_file(f, p) THEN [status |-> "FileExistsError", fs |-> f]
    ELSE IF \E q \in ancestors_and_self(p) : is_file(f, q)
    THEN [status |-> "NotADirectoryError", fs |-> f]
    ELSE [status |-> "ok",
          fs |-> [q \in DOMAIN f \cup ancestors_and_self(p) |->
                    IF q \in DOMAIN f THEN f[q] ELSE DirNode]]

\* shutil.copy2(src, dst) into the tree: a dst that is a directory means
\* dst/basename(src)
copy2_in(f, src, dst) ==
    LET target == IF is_dir(f, dst) THEN Append(dst, src.name) ELSE dst
    IN  IF is_dir(f, target) THEN [status |-> "IsADirectoryError", fs |-> f]
        ELSE IF ~is_dir(f, parent(target)) THEN [status |-> "FileNotFoundError", fs |-> f]
        ELSE [status |-> "ok", fs |-> fs_put(f, target, FileNode(src.data))]

\* Path.unlink()
unlink(f, p) ==
    IF is_dir(f, p) THEN [status |-> "IsADirectoryError", fs |-> f]
    ELSE IF ~path_exists(f, p) THEN [status |-> "FileNotFoundError", fs |-> f]
    ELSE [status |-> "ok", fs |-> fs_remove(f, p)]

\* search_path.rglob('*'): everything below search_path, nothing when
\* search_path is not a directory
rglob_all(f, p) ==
    IF is_dir(f, p) THEN { q \in DOMAIN f : Len(q) > Len(p) /\ SubSeq(q, 1, Len(p)) = p }
    ELSE {}

----------------------------------------------------------------------------
(* The object store behind the boto3 client *)

NoObjects == [k \in {} |-> <<>>]

\* how a request ends before it is served: a connection failure raises a
\* botocore error that is no ClientError, a refusal or a missing bucket
\* raises ClientError
s3_request(w) ==
    IF w.s3_fault = "down" THEN "EndpointConnectionError"
    ELSE IF w.s3_fault = "denied" THEN "ClientError"
    ELSE IF ~w.s3.bucket THEN "ClientError"
    ELSE "ok"

s3_head_bucket(w) == s3_request(w)

s3_create_bucket(w) ==
    IF w.s3_fault = "down" THEN [status |-> "EndpointConnectionError", s3 |-> w.s3]
    ELSE IF w.s3_fault = "denied" THEN [status |-> "ClientError", s3 |-> w.s3]
    ELSE [status |-> "ok", s3 |-> [w.s3 EXCEPT !.bucket = TRUE]]

s3_head_object(w, key) ==
    IF s3_request(w) # "ok" THEN s3_request(w)
    ELSE IF key \notin DOMAIN w.s3.objs THEN "ClientError"
    ELSE "ok"

s3_put_object(w, key, data) ==
    IF s3_request(w) = "EndpointConnectionError"
    THEN [status |-> "EndpointConnectionError", s3 |-> w.s3]
    ELSE IF s3_request(w) = "ClientError"
    THEN [status |-> "S3UploadFailedError", s3 |-> w.s3]
    ELSE [status |-> "ok",
          s3 |-> [w.s3 EXCEPT !.objs =
                    [k \in DOMAIN w.s3.objs \cup {key} |->
                        IF k = key THEN data ELSE w.s3.objs[k]]]]

\* DeleteObject answers 204 whether or not the key is there
s3_delete_object(w, key) ==
    IF s3_request(w) # "ok" THEN [status |-> s3_request(w), s3 |-> w.s3]
    ELSE [status |-> "ok",
          s3 |-> [w.s3 EXCEPT !.objs = [k \in DOMAIN w.s3.objs \ {key} |-> w.s3.objs[k]]]]

\* ListObjectsV2 with Prefix: the keys that start with the string prefix
\* (one page; the key sets here stay far below the page size)
s3_list_objects_v2(w, prefix) == { k \in DOMAIN w.s3.objs : IsPrefix(prefix, k) }

----------------------------------------------------------------------------
(* StorageClient *)

NoClient == [alive |-> FALSE, use_local |-> FALSE, has_base_path |-> FALSE,
             has_s3_client |-> FALSE]

World == [fs |-> fs, s3 |-> s3, s3_fault |-> s3_fault]

\* size os.stat reports for a directory (the file system's block size here)
dir_st_size == 4096

\* __init__ that logs a failed create_bucket without re-raising it
StorageClient_init_swallows(st, w) ==
    IF st.use_local_storage
    THEN [status |-> "ok",
          client |-> [alive |-> TRUE, use_local |-> TRUE, has_base_path |-> TRUE,
                      has_s3_client |-> FALSE],
          w |-> [w EXCEPT !.fs = fs_put(w.fs, <<>>, DirNode)],
          calls |-> <<"fs.mkdir">>]
    ELSE LET self == [alive |-> TRUE, use_local |-> FALSE, has_base_path |-> FALSE,
                      has_s3_client |-> TRUE]
             head == s3_head_bucket(w)
             made == s3_create_bucket(w)
         IN  IF head = "ok"
             THEN [status |-> "ok", client |-> self, w |-> w,
                   calls |-> <<"s3.head_bucket">>]
             ELSE IF head # "ClientError"
             THEN [status |-> head, client |-> NoClient, w |-> w,
                   calls |-> <<"s3.head_bucket">>]
             ELSE IF made.status \in {"ok", "ClientError"}
             THEN [status |-> "ok", client |-> self, w |-> [w EXCEPT !.s3 = made.s3],
                   calls |-> <<"s3.head_bucket", "s3.create_bucket">>]
             ELSE [status |-> made.status, client |-> NoClient, w |-> w,
                   calls |-> <<"s3.head_bucket", "s3.create_bucket">>]

\* StorageClient.__init__(settings): status "ok" returns the instance, any
\* other status is the exception that leaves the caller without one
StorageClient_init(st, w) ==
    IF st.use_local_storage
    THEN [status |-> "ok",
          client |-> [alive |-> TRUE, use_local |-> TRUE, has_base_path |-> TRUE,
                      has_s3_client |-> FALSE],
          w |-> [w EXCEPT !.fs = fs_put(w.fs, <<>>, DirNode)],
          calls |-> <<"fs.mkdir">>]
    ELSE LET self == [alive |-> TRUE, use_local |-> FALSE, has_base_path |-> FALSE,
                      has_s3_client |-> TRUE]
             head == s3_head_bucket(w)
             made == s3_create_bucket(w)
         IN  IF head = "ok"
             THEN [status |-> "ok", client |-> self, w |-> w,
                   calls |-> <<"s3.head_bucket">>]
             ELSE IF head # "ClientError"
             THEN [status |-> head, client |-> NoClient, w |-> w,
                   calls |-> <<"s3.head_bucket">>]
             ELSE IF made.status = "ok"
             THEN [status |-> "ok", client |-> self, w |-> [w EXCEPT !.s3 = made.s3],
                   calls |-> <<"s3.head_bucket", "s3.create_bucket">>]
             ELSE [status |-> made.status, client |-> NoClient, w |-> w,
                   calls |-> <<"s3.head_bucket", "s3.create_bucket">>]

\* upload_file without the check of the source path: the copy itself fails,
\* after the backend was set to work
upload_file_unchecked(self, w, src, key) ==
    IF self.use_local
    THEN LET dest_path == path_of(key)
             made == mkdir_parents(w.fs, parent(dest_path))
             copied == copy2_in(made.fs, src, dest_path)
         IN  IF made.status # "ok"
             THEN [status |-> made.status, w |-> w, calls |-> <<"fs.mkdir">>]
             ELSE IF ~src.exists
             THEN [status |-> "FileNotFoundError", w |-> [w EXCEPT !.fs = made.fs],
                   calls |-> <<"fs.mkdir", "fs.copy2">>]
             ELSE [status |-> copied.status, w |-> [w EXCEPT !.fs = copied.fs],
                   calls |-> <<"fs.mkdir", "fs.copy2">>]
    ELSE LET put == s3_put_object(w, key, src.data)
         IN  IF ~src.exists
             THEN [status |-> "FileNotFoundError", w |-> w, calls |-> <<"s3.upload_file">>]
             ELSE [status |-> put.status, w |-> [w EXCEPT !.s3 = put.s3],
                   calls |-> <<"s3.upload_file">>]

upload_file(self, w, src, key) ==
    IF ~src.exists
    THEN [status |-> "FileNotFoundError", w |-> w, calls |-> <<>>]
    ELSE IF self.use_local
    THEN LET dest_path == path_of(key)
             made == mkdir_parents(w.fs, parent(dest_path))
             copied == copy2_in(made.fs, src, dest_path)
         IN  IF made.status # "ok"
             THEN [status |-> made.status, w |-> w, calls |-> <<"fs.mkdir">>]
             ELSE [status |-> copied.status, w |-> [w EXCEPT !.fs = copied.fs],
                   calls |-> <<"fs.mkdir", "fs.copy2">>]
    ELSE LET put == s3_put_object(w, key, src.data)
         IN  [status |-> put.status, w |-> [w EXCEPT !.s3 = put.s3],
              calls |-> <<"s3.upload_file">>]

\* os.makedirs(os.path.dirname(file_path), exist_ok=True)
makedirs_dirname(dest) == IF dest = "bare" THEN "FileNotFoundError" ELSE "ok"

download_file(self, w, key, dest) ==
    LET made == makedirs_dirname(dest)
        none == [status |-> "ok", data |-> <<>>, dest_written |-> FALSE,
                 dest_dirs_made |-> FALSE, calls |-> <<>>]
    IN  IF self.use_local
        THEN LET src_path == path_of(key)
             IN  IF ~path_exists(w.fs, src_path)
                 THEN [none EXCEPT !.status = "FileNotFoundError", !.calls = <<"fs.exists">>]
                 ELSE IF made # "ok"
                 THEN [none EXCEPT !.status = made, !.calls = <<"fs.exists">>]
                 ELSE IF is_dir(w.fs, src_path)
                 THEN [none EXCEPT !.status = "IsADirectoryError",
                                   !.dest_dirs_made = (dest = "dir_missing"),
                                   !.calls = <<"fs.exists", "fs.copy2">>]
                 ELSE [none EXCEPT !.data = w.fs[src_path].data,
                                   !.dest_written = TRUE,
                                   !.dest_dirs_made = (dest = "dir_missing"),
                                   !.calls = <<"fs.exists", "fs.copy2">>]
        ELSE IF made # "ok"
        THEN [none EXCEPT !.status = made]
        ELSE IF s3_head_object(w, key) # "ok"
        THEN [none EXCEPT !.status = s3_head_object(w, key),
                          !.dest_dirs_made = (dest = "dir_missing"),
                          !.calls = <<"s3.download_file">>]
        ELSE [none EXCEPT !.data = w.s3.objs[key],
                          !.dest_written = TRUE,
                          !.dest_dirs_made = (dest = "dir_missing"),
                          !.calls = <<"s3.download_file">>]

\* delete_file whose local branch logs the deletion without unlinking
delete_file_skips_unlink(self, w, key) ==
    IF self.use_local
    THEN IF path_exists(w.fs, path_of(key))
         THEN [status |-> "ok", w |-> w, warned |-> FALSE, calls |-> <<"fs.exists">>]
         ELSE [status |-> "ok", w |-> w, warned |-> TRUE, calls |-> <<"fs.exists">>]
    ELSE LET gone == s3_delete_object(w, key)
         IN  [status |-> gone.status, w |-> [w EXCEPT !.s3 = gone.s3],
              warned |-> FALSE, calls |-> <<"s3.delete_object">>]

delete_file(self, w, key) ==
    IF self.use_local
    THEN LET file_path == path_of(key)
             gone == unlink(w.fs, file_path)
         IN  IF path_exists(w.fs, file_path)
             THEN [status |-> gone.status, w |-> [w EXCEPT !.fs = gone.fs],
                   warned |-> FALSE, calls |-> <<"fs.exists", "fs.unlink">>]
             ELSE [status |-> "ok", w |-> w, warned |-> TRUE, calls |-> <<"fs.exists">>]
    ELSE LET gone == s3_delete_object(w, key)
         IN  [status |-> gone.status, w |-> [w EXCEPT !.s3 = gone.s3],
              warned |-> FALSE, calls |-> <<"s3.delete_object">>]

\* file_exists that catches ClientError only
file_exists_catches_client_error(self, w, key) ==
    IF self.use_local
    THEN [status |-> "ok", value |-> path_exists(w.fs, path_of(key)),
          calls |-> <<"fs.exists">>]
    ELSE IF s3_head_object(w, key) \in {"ok", "ClientError"}
    THEN [status |-> "ok", value |-> (s3_head_object(w, key) = "ok"),
          calls |-> <<"s3.head_object">>]
    ELSE [status |-> s3_head_object(w, key), value |-> FALSE,
          calls |-> <<"s3.head_object">>]

file_exists(self, w, key) ==
    IF self.use_local
    THEN [status |-> "ok", value |-> path_exists(w.fs, path_of(key)),
          calls |-> <<"fs.exists">>]
    ELSE [status |-> "ok", value |-> (s3_head_object(w, key) = "ok"),
          calls |-> <<"s3.head_object">>]

\* get_file_size without the dispatch on use_local: always the S3 branch
get_file_size_no_dispatch(self, w, key) ==
    IF s3_head_object(w, key) # "ok"
    THEN [status |-> s3_head_object(w, key), size |-> 0, calls |-> <<"s3.head_object">>]
    ELSE [status |-> "ok", size |-> Len(w.s3.objs[key]), calls |-> <<"s3.head_object">>]

get_file_size(self, w, key) ==
    IF self.use_local
    THEN LET file_path == path_of(key)
         IN  IF ~path_exists(w.fs, file_path)
             THEN [status |-> "FileNotFoundError", size |-> 0, calls |-> <<"fs.exists">>]
             ELSE IF is_dir(w.fs, file_path)
             THEN [status |-> "ok", size |-> dir_st_size, calls |-> <<"fs.exists", "fs.stat">>]
             ELSE [status |-> "ok", size |-> Len(w.fs[file_path].data),
                   calls |-> <<"fs.exists", "fs.stat">>]
    ELSE IF s3_head_object(w, key) # "ok"
    THEN [status |-> s3_head_object(w, key), size |-> 0, calls |-> <<"s3.head_object">>]
    ELSE [status |-> "ok", size |-> Len(w.s3.objs[key]), calls |-> <<"s3.head_object">>]

list_files(self, w, prefix) ==
    IF self.use_local
    THEN LET search_path == path_of(prefix)
         IN  IF ~path_exists(w.fs, search_path)
             THEN [status |-> "ok", files |-> {}, calls |-> <<"fs.exists">>]
             ELSE [status |-> "ok",
                   files |-> { rel_str(item) :
                               item \in { q \in rglob_all(w.fs, search_path) : is_file(w.fs, q) } },
                   calls |-> <<"fs.exists", "fs.rglob">>]
    ELSE IF s3_request(w) # "ok"
    THEN [status |-> s3_request(w), files |-> {}, calls |-> <<"s3.list_objects_v2">>]
    ELSE [status |-> "ok", files |-> s3_list_objects_v2(w, prefix),
          calls |-> <<"s3.list_objects_v2">>]

----------------------------------------------------------------------------
(* The state machine *)

NoCall == [op |-> "none", key |-> <<>>, status |-> "ok", src_exists |-> TRUE,
           data |-> <<>>, value |-> FALSE, size |-> 0, files |-> {},
           dest |-> "none", dest_written |-> FALSE, warned |-> FALSE, calls |-> <<>>]

Call(op, key, r) == [NoCall EXCEPT !.op = op, !.key = key, !.status = r.status,
                                   !.calls = r.calls]

Init ==
    /\ settings \in [use_local_storage : BOOLEAN]
    /\ client = NoClient
    /\ fs = <<>>
    /\ s3 \in [bucket : BOOLEAN, objs : {NoObjects}]
    /\ s3_fault = "none"
    /\ written = NoObjects
    /\ last = NoCall

\* get_storage_client(settings): a caller left without an instance may try again
Construct ==
    /\ ~client.alive
    /\ LET r == StorageClient_init(settings, World)
       IN  /\ client' = r.client
           /\ fs' = r.w.fs
           /\ s3' = r.w.s3
           /\ last' = Call("init", <<>>, r)
    /\ UNCHANGED others
    /\ UNCHANGED <<settings, s3_fault, written>>

UploadFile(src, key) ==
    /\ client.alive
    /\ LET r == upload_file(client, World, src, key)
       IN  /\ fs' = r.w.fs
           /\ s3' = r.w.s3
           /\ written' = IF r.status = "ok"
                         THEN [k \in DOMAIN written \cup {key} |->
                                 IF k = key THEN src.data ELSE written[k]]
                         ELSE written
           /\ last' = [Call("upload_file", key, r) EXCEPT !.src_exists = src.exists,
                                                          !.data = src.data]
    /\ UNCHANGED others
    /\ UNCHANGED <<settings, client, s3_fault>>

DownloadFile(key, dest) ==
    /\ client.alive
    /\ LET r == download_file(client, World, key, dest)
       IN  last' = [Call("download_file", key, r) EXCEPT !.data = r.data, !.dest = dest,
                                                         !.dest_written = r.dest_written]
    /\ UNCHANGED others
    /\ UNCHANGED <<settings, client, fs, s3, s3_fault, written>>

DeleteFile(key) ==
    /\ client.alive
    /\ LET r == delete_file(client, World, key)
       IN  /\ fs' = r.w.fs
           /\ s3' = r.w.s3
           /\ written' = IF r.status = "ok"
                         THEN [k \in DOMAIN written \ {key} |-> written[k]]
                         ELSE written
           /\ last' = [Call("delete_file", key, r) EXCEPT !.warned = r.warned]
    /\ UNCHANGED others
    /\ UNCHANGED <<settings, client, s3_fault>>

FileExists(key) ==
    /\ client.alive
    /\ LET r == file_exists(client, World, key)
       IN  last' = [Call("file_exists", key, r) EXCEPT !.value = r.value]
    /\ UNCHANGED others
    /\ UNCHANGED <<settings, client, fs, s3, s3_fault, written>>

GetFileSize(key) ==
    /\ client.alive
    /\ LET r == get_file_size(client, World, key)
       IN  last' = [Call("get_file_size", key, r) EXCEPT !.size = r.size]
    /\ UNCHANGED others
    /\ UNCHANGED <<settings, client, fs, s3, s3_fault, written>>

ListFiles(prefix) ==
    /\ client.alive
    /\ LET r == list_files(client, World, prefix)
       IN  last' = [Call("list_files", prefix, r) EXCEPT !.files = r.files]
    /\ UNCHANGED others
    /\ UNCHANGED <<settings, client, fs, s3, s3_fault, written>>

\* the environment: the object store starts or stops refusing or dropping
\* requests between two calls of the client
S3Fault(f) ==
    /\ ~settings.use_local_storage
    /\ f # s3_fault
    /\ s3_fault' = f
    /\ last' = [NoCall EXCEPT !.op = "env"]
    /\ UNCHANGED others
    /\ UNCHANGED <<settings, client, fs, s3, written>>

Next ==
    \/ Construct
    \/ \E src \in Sources, key \in Keys : UploadFile(src, key)
    \/ \E key \in Keys, dest \in Dests : DownloadFile(key, dest)
    \/ \E key \in Keys : DeleteFile(key)
    \/ \E key \in Keys : FileExists(key)
    \/ \E key \in Keys : GetFileSize(key)
    \/ \E prefix \in Prefixes : ListFiles(prefix)
    \/ \E f \in Faults : S3Fault(f)

\* the storage client, called by one caller at a time
StorageInit ==
    /\ Init
    /\ up = Unused /\ pub = Unused /\ db = Unused /\ cfg = Unused

Spec == StorageInit /\ [][Next]_<<vars, others>>

----------------------------------------------------------------------------
(* Properties *)

\* destinations with a directory part, as in the usage example
DestsInDir == {"dir_exists", "dir_missing"}

\* the keys the contract holds to be stored: uploaded and not deleted since
StoredKeys == DOMAIN written

\* the object store answers (nothing to ask of it in local mode)
BackendAnswers == client.use_local \/ s3_fault = "none"

NoS3Calls(calls) == \A i \in 1..Len(calls) : calls[i] \notin
    {"s3.head_bucket", "s3.create_bucket", "s3.upload_file", "s3.download_file",
     "s3.delete_object", "s3.head_object", "s3.list_objects_v2"}

NoFsCalls(calls) == \A i \in 1..Len(calls) : calls[i] \notin
    {"fs.mkdir", "fs.copy2", "fs.exists", "fs.unlink", "fs.stat", "fs.rglob"}

\* C1 (round trip): right after upload_file(src, k) succeeded with src holding
\* c, download_file(k, dest) succeeds and dest holds exactly c, in local and in
\* remote mode, whatever was uploaded and deleted before.
C1_RoundTrip ==
    (client.alive /\ last.op = "upload_file" /\ last.status = "ok") =>
        \A dest \in DestsInDir :
            LET r == download_file(client, World, last.key, dest)
            IN  r.status = "ok" /\ r.dest_written /\ r.data = last.data

\* C2 (existence consistency): right after upload_file(src, k) returned
\* without error file_exists(k) is true, and right after delete_file(k)
\* returned without error file_exists(k) is false, in both modes.
C2_ExistenceConsistency ==
    /\ (last.op = "upload_file" /\ last.status = "ok") =>
          LET r == file_exists(client, World, last.key)
          IN  r.status = "ok" /\ r.value = TRUE
    /\ (last.op = "delete_file" /\ last.status = "ok") =>
          LET r == file_exists(client, World, last.key)
          IN  r.status = "ok" /\ r.value = FALSE

\* a delete that removed a stored object, while other keys stay stored
C2_Witness ==
    /\ last.op = "delete_file" /\ last.status = "ok" /\ ~last.warned
    /\ StoredKeys # {}

\* C3 (listing correctness): for every prefix p, list_files(p) returns exactly
\* the stored keys that start with the string p, never raises for a prefix
\* without matches, and returns the same set in both modes.
C3_ListingCorrectness ==
    (client.alive /\ BackendAnswers) =>
        \A p \in Prefixes :
            LET r == list_files(client, World, p)
            IN  r.status = "ok" /\ r.files = { k \in StoredKeys : IsPrefix(p, k) }

\* C4 (size accuracy): for every key whose last successful write was an upload
\* of c and that was not deleted since, get_file_size returns the length of c.
C4_SizeAccuracy ==
    (client.alive /\ BackendAnswers) =>
        \A k \in StoredKeys :
            LET r == get_file_size(client, World, k)
            IN  r.status = "ok" /\ r.size = Len(written[k])

\* C5 (not-found mapping): for every key that is not stored, download_file and
\* get_file_size both fail with FileNotFoundError, in local and in remote mode,
\* and download_file writes no destination.
C5_NotFoundMapping ==
    (client.alive /\ BackendAnswers) =>
        \A k \in Keys \ StoredKeys :
            /\ \A dest \in DestsInDir :
                  LET r == download_file(client, World, k, dest)
                  IN  r.status = "FileNotFoundError" /\ ~r.dest_written
            /\ get_file_size(client, World, k).status = "FileNotFoundError"

\* C6 (source not found): upload_file with a source path that does not exist
\* raises FileNotFoundError before any backend call: no backend operation is
\* invoked and the stored keys and contents are unchanged, in both modes.
C6_SourceNotFoundFirst ==
    [][ (last'.op = "upload_file" /\ ~last'.src_exists) =>
            /\ last'.status = "FileNotFoundError"
            /\ last'.calls = <<>>
            /\ fs' = fs /\ s3' = s3 /\ written' = written ]_vars

\* an upload from a missing source against a store that holds something
C6_Witness ==
    /\ last.op = "upload_file" /\ ~last.src_exists
    /\ StoredKeys # {}

C8_IdempotentDelete ==
    (client.alive /\ client.use_local) =>
        \A k \in Keys :
            LET first == delete_file(client, World, k)
                second == delete_file(client, first.w, k)
            IN  /\ second.status = "ok"
                /\ k \notin StoredKeys => (first.status = "ok" /\ first.w = World)

\* C9 (mode invariant): the mode of a client never changes once constructed;
\* a local-mode client never calls the object store, a remote-mode client
\* never touches the local root directory.
C9_ModeInvariant ==
    [][ /\ client.alive => (client'.alive /\ client'.use_local = client.use_local)
        /\ client'.alive => client'.use_local = settings.use_local_storage
        /\ (client'.alive /\ client'.use_local) =>
              (s3' = s3 /\ NoS3Calls(last'.calls) /\ ~client'.has_s3_client)
        /\ (client'.alive /\ ~client'.use_local) =>
              (fs' = fs /\ NoFsCalls(last'.calls) /\ ~client'.has_base_path) ]_vars

\* a client that has changed its store
C9_Witness ==
    /\ client.alive
    /\ last.op = "delete_file" /\ last.status = "ok"
    /\ StoredKeys # {}

\* C10 (bucket after construction): whenever remote-mode construction returns
\* an instance the bucket exists; when the bucket is absent and cannot be
\* created, construction raises and no instance is returned.
C10_BucketAfterConstruction ==
    /\ (client.alive /\ ~client.use_local) => s3.bucket
    /\ (last.op = "init" /\ last.status # "ok") => ~client.alive
    /\ (last.op = "init" /\ ~settings.use_local_storage /\ ~s3.bucket) =>
          (last.status # "ok" /\ ~client.alive)

\* construction that found no bucket and created it
C10_Witness ==
    /\ client.alive /\ ~client.use_local
    /\ last.op = "init"
    /\ last.calls = <<"s3.head_bucket", "s3.create_bucket">>

\* what a caller can observe of key k in world w: existence, size, content
Observed(self, w, k) ==
    [exists |-> file_exists(self, w, k).value,
     size |-> get_file_size(self, w, k),
     content |-> download_file(self, w, k, "dir_exists")]

\* C12 (independence of distinct keys): an upload or delete on k1 neither
\* fails because of another key k2 (it succeeds whenever its source exists and
\* the backend answers) nor changes the existence, size or content observed
\* for any other key k2, in both backends, also when one key is a path prefix
\* of the other.
C12_DistinctKeysIndependent ==
    [][ (client.alive /\ last'.op \in {"upload_file", "delete_file"}
           /\ last'.src_exists /\ BackendAnswers) =>
            /\ last'.status = "ok"
            /\ \A k2 \in Keys \ {last'.key} :
                  Observed(client, World', k2) = Observed(client, World, k2) ]_vars

\* C16 (bucket creation): during remote-mode construction create_bucket is
\* called exactly when the probe finds the bucket absent: not when the bucket
\* exists, not when the probe fails for another reason (access denied, no
\* connection), only after the probe, and at most once.
C16_CreateOnlyWhenAbsent ==
    [][ last'.op = "init" =>
            /\ (~settings.use_local_storage /\ s3_fault = "none" /\ ~s3.bucket)
                  => last'.calls = <<"s3.head_bucket", "s3.create_bucket">>
            /\ ~(~settings.use_local_storage /\ s3_fault = "none" /\ ~s3.bucket)
                  => \A i \in 1..Len(last'.calls) : last'.calls[i] # "s3.create_bucket" ]_vars

\* C17 (download destinations): download_file of a stored key succeeds for
\* every destination path, a bare file name and a destination whose parent
\* directories do not exist included: the destination is written.
C17_DownloadAnyDestination ==
    (client.alive /\ BackendAnswers) =>
        \A k \in StoredKeys, dest \in Dests :
            LET r == download_file(client, World, k, dest)
            IN  r.status = "ok" /\ r.dest_written /\ r.data = written[k]

\* C18 (local existence is key existence): in local mode file_exists(k) is
\* true and get_file_size(k) returns a size only for keys uploaded and not
\* deleted since; for any other key, a path prefix of an uploaded key
\* included, file_exists is false and get_file_size raises not-found.
C18_LocalExistsOnlyUploaded ==
    (client.alive /\ client.use_local) =>
        \A k \in Keys \ StoredKeys :
            /\ file_exists(client, World, k).value = FALSE
            /\ get_file_size(client, World, k).status = "FileNotFoundError"

----------------------------------------------------------------------------
(* Uploads to one key, step by step (storage.py, upload_file and            *)
(* upload_fileobj).  Two callers share one constructed StorageClient and    *)
(* upload to the same key, whose parent directory exists.  In local mode an *)
(* upload opens the destination for writing, which truncates it, and then   *)
(* writes the source block by block at the offset of its own file handle;   *)
(* in remote mode boto3 reads the source and sends one PUT, which replaces  *)
(* the object as a whole.  A content is a sequence of blocks.               *)

\* the most blocks in one uploaded content
MaxChunks == 2

Callers == {1, 2}

UploadOps == {"upload_file", "upload_fileobj"}

\* the content caller c uploads: n blocks, each marked with the caller
SourceOf(c, n) == [i \in 1..n |-> c]

\* the key is not stored
NoFile == [exists |-> FALSE, data |-> <<>>]

\* what the key may hold before the two callers start
PriorFiles == {NoFile, [exists |-> TRUE, data |-> <<0>>]}

IdleCaller == [pc |-> "idle", op |-> "upload_file", data |-> <<>>, fail_at |-> 0, pos |-> 0]

\* f.write(block) on a handle whose offset is off: bytes the file does not
\* have yet between its end and the offset read as zero
WriteAt(data, off, block) ==
    LET n == IF Len(data) > off + 1 THEN Len(data) ELSE off + 1
    IN  [i \in 1..n |-> IF i = off + 1 THEN block
                        ELSE IF i <= Len(data) THEN data[i]
                        ELSE 0]

\* a caller enters upload_file(file_path, k) with an existing source, or
\* upload_fileobj(file_obj, k) with a stream whose read() raises at block
\* fail_at (0: the stream reads to its end)
UploadEnter(c, op, n, fail_at) ==
    /\ up.callers[c].pc = "idle"
    /\ fail_at <= n
    /\ op = "upload_file" => fail_at = 0
    /\ up' = [up EXCEPT !.callers[c] =
                [pc |-> "entered", op |-> op, data |-> SourceOf(c, n),
                 fail_at |-> fail_at, pos |-> 0]]
    /\ UNCHANGED <<vars, pub, db, cfg>>

\* local mode: open(dest_path, 'wb'), in upload_fileobj and inside shutil.copy2
OpenWb(c) ==
    /\ client.use_local
    /\ up.callers[c].pc = "entered"
    /\ up' = [up EXCEPT !.stored = [exists |-> TRUE, data |-> <<>>],
                        !.callers[c].pc = "copying"]
    /\ UNCHANGED <<vars, pub, db, cfg>>

\* local mode: one round of the copy loop: read a block, write it
CopyChunk(c) ==
    LET me == up.callers[c]
    IN  /\ client.use_local
        /\ me.pc = "copying"
        /\ me.pos < Len(me.data)
        /\ IF me.fail_at = me.pos + 1
           THEN up' = [up EXCEPT !.callers[c].pc = "raised"]
           ELSE up' = [up EXCEPT
                         !.stored.data = WriteAt(@, me.pos, me.data[me.pos + 1]),
                         !.callers[c].pos = me.pos + 1]
        /\ UNCHANGED <<vars, pub, db, cfg>>

\* local mode: the source is at its end, the handle is closed, the call returns
CloseDest(c) ==
    LET me == up.callers[c]
    IN  /\ client.use_local
        /\ me.pc = "copying"
        /\ me.pos = Len(me.data)
        /\ up' = [up EXCEPT !.callers[c].pc = "returned"]
        /\ UNCHANGED <<vars, pub, db, cfg>>

\* remote mode: s3_client.upload_file / upload_fileobj: the source is read,
\* then one PUT stores the object; a read error or a failure of the store
\* raises and leaves the object as it was
S3Transfer(c, backend_ok) ==
    LET me == up.callers[c]
    IN  /\ ~client.use_local
        /\ me.pc = "entered"
        /\ IF me.fail_at = 0 /\ backend_ok
           THEN up' = [up EXCEPT !.stored = [exists |-> TRUE, data |-> me.data],
                                 !.callers[c].pc = "returned"]
           ELSE up' = [up EXCEPT !.callers[c].pc = "raised"]
        /\ UNCHANGED <<vars, pub, db, cfg>>

\* the state after StorageClient() was constructed in either mode, the key
\* stored or not, both callers yet to call
RaceInit ==
    /\ settings \in [use_local_storage : BOOLEAN]
    /\ LET r == StorageClient_init(settings,
                    [fs |-> <<>>, s3 |-> [bucket |-> TRUE, objs |-> NoObjects],
                     s3_fault |-> "none"])
       IN  client = r.client /\ fs = r.w.fs /\ s3 = r.w.s3
    /\ s3_fault = "none" /\ written = NoObjects /\ last = NoCall
    /\ up \in [stored : PriorFiles, prior : PriorFiles, callers : {[c \in Callers |-> IdleCaller]}]
    /\ up.stored = up.prior
    /\ pub = Unused /\ db = Unused /\ cfg = Unused

RaceNext ==
    \/ \E c \in Callers, op \in UploadOps, n \in 1..MaxChunks, fail_at \in 0..MaxChunks :
          UploadEnter(c, op, n, fail_at)
    \/ \E c \in Callers : OpenWb(c)
    \/ \E c \in Callers : CopyChunk(c)
    \/ \E c \in Callers : CloseDest(c)
    \/ \E c \in Callers, backend_ok \in BOOLEAN : S3Transfer(c, backend_ok)

SpecRace == RaceInit /\ [][RaceNext]_<<vars, others>>

\* C11 (last write wins): once two uploads to the same key that ran at the
\* same time have both returned, the key holds exactly the content of one of
\* them, never a mixture of the two
C11_LastWriteWins ==
    (\A c \in Callers : up.callers[c].pc = "returned") =>
        /\ up.stored.exists
        /\ \E c \in Callers : up.stored.data = up.callers[c].data

\* C19 (a failed upload changes nothing): when an upload to the key has
\* raised and no other caller has touched the key, the key holds what it held
\* before the call, and is absent if it was absent
C19_FailedUploadNoChange ==
    \A c \in Callers :
        (up.callers[c].pc = "raised" /\ \A o \in Callers \ {c} : up.callers[o].pc = "idle")
            => up.stored = up.prior

----------------------------------------------------------------------------
(* The event publisher (wazz_shared/events.py).  One EventPublisher and the *)
(* broker's side of the connections it has opened.  A channel is closed     *)
(* when the broker closes it or when its connection is closed; is_closed is *)
(* what pika reports for the channel or connection the publisher holds.     *)

\* the most connections the publisher opens in one behaviour
MaxConns == 3

USER_REGISTERED == "user.registered"
USER_VERIFIED == "user.verified"
USER_PASSWORD_RESET_REQUESTED == "user.password_reset_requested"

\* event.event_type of the three event models
EventTypes == {USER_REGISTERED, USER_VERIFIED, USER_PASSWORD_RESET_REQUESTED}

EXCHANGE_NAME == "user_events"
EXCHANGE_TYPE == "topic"

NoMessage ==
    [sent |-> FALSE, channel |-> 0, on_open |-> FALSE, exchange |-> "",
     declared |-> {}, routing_key |-> "", event_type |-> "", delivery_mode |-> 0]

\* EventPublisher.__init__: no connection, no channel (0 stands for None)
NewPublisher ==
    [connection |-> 0, channel |-> 0, conns |-> <<>>, msg |-> NoMessage, last_op |-> "init"]

\* connect(): a new BlockingConnection replaces the reference held, a channel
\* is opened on it and the exchange is declared on that channel
connect(p) ==
    LET id == Len(p.conns) + 1
    IN  [p EXCEPT !.connection = id,
                  !.channel = id,
                  !.conns = Append(@, [open |-> TRUE, ch_open |-> TRUE,
                                       exchanges |-> {[exchange |-> EXCHANGE_NAME,
                                                       exchange_type |-> EXCHANGE_TYPE,
                                                       durable |-> TRUE]}])]

\* publish without the is_closed test: only a publisher with no channel connects
publish_ignores_is_closed(p, event_type) ==
    LET q == IF p.channel = 0 THEN connect(p) ELSE p
    IN  [q EXCEPT !.msg = [sent |-> TRUE, channel |-> q.channel,
                           on_open |-> q.conns[q.channel].ch_open,
                           exchange |-> EXCHANGE_NAME,
                           declared |-> q.conns[q.channel].exchanges,
                           routing_key |-> event_type, event_type |-> event_type,
                           delivery_mode |-> 2],
                  !.last_op = "publish"]

\* publish(event): connect first if there is no channel or it is closed, then
\* basic_publish on the channel held
publish(p, event_type) ==
    LET q == IF p.channel = 0 \/ ~p.conns[p.channel].ch_open THEN connect(p) ELSE p
    IN  [q EXCEPT !.msg = [sent |-> TRUE, channel |-> q.channel,
                           on_open |-> q.conns[q.channel].ch_open,
                           exchange |-> EXCHANGE_NAME,
                           declared |-> q.conns[q.channel].exchanges,
                           routing_key |-> event_type, event_type |-> event_type,
                           delivery_mode |-> 2],
                  !.last_op = "publish"]

\* close(): closes the connection held if it is open, and with it its channel
close(p) ==
    IF p.connection # 0 /\ p.conns[p.connection].open
    THEN [p EXCEPT !.conns[p.connection] = [@ EXCEPT !.open = FALSE, !.ch_open = FALSE],
                   !.last_op = "close"]
    ELSE [p EXCEPT !.last_op = "close"]

Connect ==
    /\ Len(pub.conns) < MaxConns
    /\ pub' = [connect(pub) EXCEPT !.last_op = "connect"]
    /\ UNCHANGED <<vars, up, db, cfg>>

Publish(event_type) ==
    /\ Len(publish(pub, event_type).conns) <= MaxConns
    /\ pub' = publish(pub, event_type)
    /\ UNCHANGED <<vars, up, db, cfg>>

Close ==
    /\ pub' = close(pub)
    /\ UNCHANGED <<vars, up, db, cfg>>

\* the broker closes the channel of one of the open connections
BrokerClosesChannel(i) ==
    /\ i <= Len(pub.conns)
    /\ pub.conns[i].ch_open
    /\ pub' = [pub EXCEPT !.conns[i].ch_open = FALSE, !.last_op = "channel_closed"]
    /\ UNCHANGED <<vars, up, db, cfg>>

EventsInit ==
    /\ Init /\ settings.use_local_storage /\ ~s3.bucket
    /\ pub = NewPublisher
    /\ up = Unused /\ db = Unused /\ cfg = Unused

EventsNext ==
    \/ Connect
    \/ \E e \in EventTypes : Publish(e)
    \/ Close
    \/ \E i \in 1..MaxConns : BrokerClosesChannel(i)

SpecEvents == EventsInit /\ [][EventsNext]_<<vars, others>>

\* C13 (reconnect): every publish sends its message on an open channel on
\* which the durable topic exchange user_events was declared, with the
\* event's type as routing key and persistent delivery; it opens a new
\* connection exactly when the publisher had no channel or a closed one
C13_PublishReconnects ==
    [][ pub'.last_op = "publish" =>
          LET usable == pub.channel # 0 /\ pub.conns[pub.channel].ch_open
              m == pub'.msg
          IN  /\ m.sent /\ m.on_open
              /\ pub'.conns[m.channel].open /\ pub'.conns[m.channel].ch_open
              /\ m.exchange = "user_events"
              /\ [exchange |-> "user_events", exchange_type |-> "topic", durable |-> TRUE]
                     \in m.declared
              /\ m.routing_key = m.event_type
              /\ m.delivery_mode = 2
              /\ usable => (pub'.conns = pub.conns /\ m.channel = pub.channel)
              /\ ~usable => (Len(pub'.conns) = Len(pub.conns) + 1
                             /\ m.channel = Len(pub'.conns)) ]_pub

\* a publish has reconnected after the broker closed the first channel, and
\* another after close()
C13_Witness ==
    /\ pub.last_op = "publish"
    /\ Len(pub.conns) = 3
    /\ ~pub.conns[1].ch_open /\ pub.conns[1].open
    /\ ~pub.conns[2].open
    /\ pub.msg.channel = 3

\* C20 (one open connection): every connection the publisher has opened,
\* other than the one it holds, is closed, and after close() none is open
C20_AtMostOneOpenConnection ==
    /\ \A i \in 1..Len(pub.conns) : i # pub.connection => ~pub.conns[i].open
    /\ pub.last_op = "close" => \A i \in 1..Len(pub.conns) : ~pub.conns[i].open

----------------------------------------------------------------------------
(* The password-reset migration (migrations/add_password_reset_fields.py).  *)
(* migrate() runs in one transaction: it reads which of the two columns the *)
(* users table has, adds the missing ones (with the index, for the token    *)
(* column) and commits.  Runs follow one another.  The users table starts   *)
(* with each column present or not, and with the index on the token column  *)
(* exactly when that column is there.                                       *)

\* the most runs of migrate() in one behaviour
MaxRuns == 8

ColumnNames == {"password_reset_token", "password_reset_token_expires"}

IndexName == "ix_users_password_reset_token"

\* a schema of the users table: the columns of interest and the indexes
Schemas ==
    {s \in [columns : SUBSET ColumnNames, indexes : SUBSET {IndexName}] :
        (IndexName \in s.indexes) <=> ("password_reset_token" \in s.columns)}

\* ALTER TABLE users ADD COLUMN c: an error if the column is there
add_column(r, c) ==
    IF ~r.ok THEN r
    ELSE IF c \in r.schema.columns
         THEN [r EXCEPT !.ok = FALSE]
         ELSE [r EXCEPT !.schema.columns = @ \cup {c},
                        !.stmts = Append(@, "ALTER")]

\* CREATE INDEX i ON users (c): an error if the index is there or the column is not
create_index(r, i, c) ==
    IF ~r.ok THEN r
    ELSE IF i \in r.schema.indexes \/ c \notin r.schema.columns
         THEN [r EXCEPT !.ok = FALSE]
         ELSE [r EXCEPT !.schema.indexes = @ \cup {i},
                        !.stmts = Append(@, "CREATE")]

\* the token step without the look at the columns found
token_step_unchecked(r, existing) ==
    create_index(add_column(r, "password_reset_token"), IndexName, "password_reset_token")

\* if 'password_reset_token' not in existing: ALTER, CREATE INDEX
token_step(r, existing) ==
    IF "password_reset_token" \notin existing
    THEN create_index(add_column(r, "password_reset_token"), IndexName, "password_reset_token")
    ELSE r

\* if 'password_reset_token_expires' not in existing: ALTER
expires_step(r, existing) ==
    IF "password_reset_token_expires" \notin existing
    THEN add_column(r, "password_reset_token_expires")
    ELSE r

\* with engine.connect() as conn: the SELECT on information_schema.columns
MigrateQuery ==
    /\ db.pc = "idle" /\ ~db.failed
    /\ db.runs < MaxRuns
    /\ db' = [db EXCEPT !.pc = "queried",
                        !.runs = @ + 1,
                        !.before = db.schema,
                        !.existing = db.schema.columns,
                        !.tx = [ok |-> TRUE, schema |-> db.schema, stmts |-> <<>>]]
    /\ UNCHANGED <<vars, up, pub, cfg>>

\* an error in a statement ends the run: the transaction is rolled back
MigrateToken ==
    /\ db.pc = "queried"
    /\ LET r == token_step(db.tx, db.existing)
       IN  db' = [db EXCEPT !.tx = r,
                            !.pc = IF r.ok THEN "token_done" ELSE "idle",
                            !.failed = ~r.ok]
    /\ UNCHANGED <<vars, up, pub, cfg>>

MigrateExpires ==
    /\ db.pc = "token_done"
    /\ LET r == expires_step(db.tx, db.existing)
       IN  db' = [db EXCEPT !.tx = r,
                            !.pc = IF r.ok THEN "expires_done" ELSE "idle",
                            !.failed = ~r.ok]
    /\ UNCHANGED <<vars, up, pub, cfg>>

\* conn.commit()
MigrateCommit ==
    /\ db.pc = "expires_done"
    /\ db' = [db EXCEPT !.schema = db.tx.schema, !.pc = "idle"]
    /\ UNCHANGED <<vars, up, pub, cfg>>

MigrateInit ==
    /\ Init /\ settings.use_local_storage /\ ~s3.bucket
    /\ \E s \in Schemas :
          db = [schema |-> s, start |-> s, before |-> s, existing |-> {},
                tx |-> [ok |-> TRUE, schema |-> s, stmts |-> <<>>],
                pc |-> "idle", runs |-> 0, failed |-> FALSE]
    /\ up = Unused /\ pub = Unused /\ cfg = Unused

MigrateNext ==
    \/ MigrateQuery
    \/ MigrateToken
    \/ MigrateExpires
    \/ MigrateCommit

SpecMigrate == MigrateInit /\ [][MigrateNext]_<<vars, others>>

FullSchema == [columns |-> ColumnNames, indexes |-> {IndexName}]

----------------------------------------------------------------------------
(* The settings cache (wazz_shared/config.py).  get_shared_settings is      *)
(* wrapped in functools.lru_cache: a call looks its key up, on a miss calls *)
(* the function, and then stores the result unless the key was stored in    *)
(* the meantime; it returns the result it computed.  The lookup and the     *)
(* store are atomic, the call of the function in between is not.            *)

\* the threads that call get_shared_settings
NumThreads == 3

Threads == 1..NumThreads

\* instances are numbered in the order SharedSettings() constructs them;
\* 0 stands for no instance
IdleThread == [pc |-> "idle", inst |-> 0, ret |-> 0]

\* the cache lookup at the start of a call
CacheLookup(t) ==
    /\ cfg.threads[t].pc = "idle"
    /\ IF cfg.cache # 0
       THEN cfg' = [cfg EXCEPT !.threads[t] = [pc |-> "returned", inst |-> 0, ret |-> cfg.cache]]
       ELSE cfg' = [cfg EXCEPT !.threads[t].pc = "miss"]
    /\ UNCHANGED <<vars, up, pub, db>>

\* return SharedSettings()
ConstructSettings(t) ==
    /\ cfg.threads[t].pc = "miss"
    /\ cfg' = [cfg EXCEPT !.made = @ + 1,
                          !.threads[t] = [pc |-> "made", inst |-> cfg.made + 1, ret |-> 0]]
    /\ UNCHANGED <<vars, up, pub, db>>

\* the wrapper stores the result if the key is still missing and returns it
CacheStore(t) ==
    /\ cfg.threads[t].pc = "made"
    /\ cfg' = [cfg EXCEPT !.cache = IF @ = 0 THEN cfg.threads[t].inst ELSE @,
                          !.threads[t] = [pc |-> "returned", inst |-> cfg.threads[t].inst,
                                          ret |-> cfg.threads[t].inst]]
    /\ UNCHANGED <<vars, up, pub, db>>

SettingsInit ==
    /\ Init /\ settings.use_local_storage /\ ~s3.bucket
    /\ cfg = [cache |-> 0, made |-> 0, threads |-> [t \in Threads |-> IdleThread]]
    /\ up = Unused /\ pub = Unused /\ db = Unused

SettingsNext ==
    \/ \E t \in Threads : CacheLookup(t)
    \/ \E t \in Threads : ConstructSettings(t)
    \/ \E t \in Threads : CacheStore(t)

SpecSettings == SettingsInit /\ [][SettingsNext]_<<vars, others>>

\* C15 (one settings instance): SharedSettings() is constructed at most
\* once, and all calls of get_shared_settings that have returned, returned
\* the same instance
C15_SingleSettingsInstance ==
    /\ cfg.made <= 1
    /\ \A t1, t2 \in Threads :
          (cfg.threads[t1].pc = "returned" /\ cfg.threads[t2].pc = "returned")
              => cfg.threads[t1].ret = cfg.threads[t2].ret

====
